---- MODULE Spec2Model ----
(***************************************************************************)
(* Model of the job-marketplace backend: the MongoDB collections (users,   *)
(* companies, jobs, applications), the Express handlers that mutate them   *)
(* and the Mongoose middleware (hooks) the schemas register.  Every        *)
(* awaited store call of a handler is one atomic step; the steps of        *)
(* different requests interleave freely, as they do on the event loop.     *)
(***************************************************************************)
EXTENDS Integers, FiniteSets, Sequences, TLC

(* ---------------------------- bounds ----------------------------------- *)
MaxApps  == 2    \* Application documents ever inserted
MaxJobs  == 2    \* Job documents ever inserted by createJob
MaxClock == 2    \* last instant of the wall clock (the first is 1)
MaxViews == 3    \* views a job collects before it is read no more

(* ---------------------------- universe --------------------------------- *)
None      == "none"
NoDate    == -1
Students  == {"s1", "s2"}
Employers == {"e1", "e2"}
Users     == Students \cup Employers
Requests  == {1, 2}      \* the requests in flight at the same time

StatusEnum == {"pending", "reviewed", "shortlisted", "rejected", "accepted"}
(* the status values requests are issued with: pending, one value that     *)
(* leaves the application withdrawable and one that locks it               *)
StatusInputs == {"pending", "reviewed", "shortlisted"}

VARIABLES
  users,         \* User collection:        id -> document
  companies,     \* Company collection:     id -> document
  jobs,          \* Job collection:         id -> document
  applications,  \* Application collection: id -> document
  now,           \* wall clock read by new Date()
  nextApp,       \* number of Application ids handed out
  nextJob,       \* number of Job ids handed out
  req,           \* the requests being served, one record per slot
  jobDecs        \* history: number of -1 increments applied for each job

vars == <<users, companies, jobs, applications, now, nextApp, nextJob, req, jobDecs>>

(* ---------------------------- responses -------------------------------- *)
Res(code, message) == [code |-> code, message |-> message]
NoRes == Res(0, "")

ApplyCreated      == Res(201, "Application submitted successfully")
ApplyNotFound     == Res(404, "Job not found or no longer available")
ApplyDeadline     == Res(400, "Application deadline has passed")
ApplyConflict     == Res(400, "You have already applied for this job")
ServerError       == Res(500, "Server error")
WithdrawOk        == Res(200, "Application withdrawn successfully")
WithdrawNotFound  == Res(404, "Application not found")
WithdrawInvalid   == Res(400, "Cannot withdraw application in current status")
StatusUpdated     == Res(200, "Application status updated successfully")
StatusNotFound    == Res(404, "Application not found")
StatusForbidden   == Res(403, "Not authorized to update this application")

(* ---------------------------- documents -------------------------------- *)
NewApplication(j, s) ==
  [job |-> j, applicant |-> s, status |-> "pending",
   reviewedAt |-> NoDate, reviewedBy |-> None]

NewJob(e, c, deadline) ==
  [employer |-> e, company |-> c, isActive |-> TRUE,
   applicationDeadline |-> deadline, applicationCount |-> 0, views |-> 0]

(* A request slot: the handler's arguments, its program counter, the locals *)
(* it carries across awaits, its response, and history fields: pre (what    *)
(* the request met when it started: for an apply, an application of its     *)
(* pair; for a withdraw, a stored application with the id it names; for an  *)
(* updateStatus, an accepted application; for a createJob, an employer      *)
(* without a company), conc (its twins), over (for an apply, the applies of *)
(* other students to the same job it overlaps), docs (the documents it      *)
(* inserted or attached minus those it deleted) and delta (the sum of the   *)
(* $inc it applied to a counter).                                           *)
NoBody == [isActive |-> <<>>, views |-> <<>>]   \* a body that sets no path

IdleReq ==
  [op |-> None, pc |-> "idle", user |-> None, company |-> None,
   jobId |-> 0, appId |-> 0, status |-> None,
   valid |-> TRUE, body |-> NoBody, views |-> 0, loaded |-> 0, count |-> 0, hook |-> None, stampAt |-> NoDate, stampBy |-> None,
   result |-> NoRes,
   pre |-> FALSE, conc |-> {}, over |-> {}, docs |-> 0, delta |-> 0]

InFlight(r) == req[r].pc \notin {"idle", "done"}
Done(r)     == req[r].pc = "done"
Quiescent   == \A r \in Requests : ~InFlight(r)

(* Start of a request in slot r, the lowest free slot (slots are only names *)
(* of the requests in flight).  Its twins, the requests in flight at this   *)
(* instant for the same operation, caller and target, are remembered as the *)
(* requests it runs concurrently to.                                        *)
Twin(p, fields) ==
  /\ InFlight(p)
  /\ req[p].op = fields.op
  /\ req[p].user = fields.user
  /\ "jobId" \in DOMAIN fields => req[p].jobId = fields.jobId
  /\ "appId" \in DOMAIN fields => req[p].appId = fields.appId

(* The applies of other students to the same job that are in flight when   *)
(* an apply starts.                                                        *)
Rival(p, fields) ==
  /\ InFlight(p)
  /\ fields.op = "apply" /\ req[p].op = "apply"
  /\ req[p].user # fields.user
  /\ req[p].jobId = fields.jobId

(* The response ends the request: its arguments and locals are dropped,    *)
(* the response and the history of the request stay until the slot is      *)
(* taken by the next request.  The response of a createJob names the       *)
(* caller's job (its id, employer and company), which the slot keeps.      *)
Finish(q, res) ==
  LET job == q.op = "createJob"
  IN [IdleReq EXCEPT !.pc = "done", !.op = q.op, !.result = res,
                     !.pre = q.pre, !.conc = q.conc, !.over = q.over,
                     !.docs = q.docs, !.delta = q.delta,
                     !.user = IF job THEN q.user ELSE None,
                     !.company = IF job THEN q.company ELSE None,
                     !.jobId = IF job THEN q.jobId ELSE 0,
                     !.valid = IF job THEN q.valid ELSE TRUE]

(* A request enters slot r and runs up to its first store call, which      *)
(* either ends it with the response res or leaves it at the label pc.      *)
Begin(r, fields, res, pc) ==
  /\ ~InFlight(r)
  /\ \A p \in Requests : p < r => InFlight(p)
  /\ LET q == fields @@ [IdleReq EXCEPT !.conc = {p \in Requests : Twin(p, fields)},
                                       !.over = {p \in Requests : Rival(p, fields)}]
     IN req' = [p \in Requests |->
                  IF p = r
                  THEN IF res # NoRes THEN Finish(q, res) ELSE [q EXCEPT !.pc = pc]
                  ELSE [req[p] EXCEPT !.conc = @ \ {r}, !.over = @ \ {r}]]

(* ---------------------------- Authorization Gate ----------------------- *)
Anonymous == "anon"      \* a request that carries no token
Callers   == Users \cup {Anonymous}

AuthNoToken      == Res(401, "No token provided, access denied")
AuthDeactivated  == Res(401, "Account is deactivated")
EmployerRequired == Res(403, "Access denied. Employer privileges required.")
StudentRequired  == Res(403, "Access denied. Student privileges required.")
GateResponses    == {AuthNoToken, AuthDeactivated, EmployerRequired, StudentRequired}

(* auth: the response it sends instead of calling next(), or NoRes.        *)
AuthGate(c) ==
  IF c \notin DOMAIN users THEN AuthNoToken
  ELSE IF ~users[c].isActive THEN AuthDeactivated
  ELSE NoRes

(* employerAuth / studentAuth: auth, then the test of req.user.userType.   *)
GateAuthOnly(c, role) == AuthGate(c)

Gate(c, role) ==
  IF AuthGate(c) # NoRes THEN AuthGate(c)
  ELSE IF users[c].userType # role
       THEN (IF role = "employer" THEN EmployerRequired ELSE StudentRequired)
       ELSE NoRes

(* The middleware each route puts before its handler.                      *)
GatedOps == {"apply", "withdraw", "updateStatus", "createJob", "updateJob", "deleteJob"}
RoleOf(op) == IF op \in {"apply", "withdraw"} THEN "student" ELSE "employer"

(* A request passes the gate of its route and then runs its handler up to  *)
(* the first store call; a request the gate rejects ends with the gate's   *)
(* response and the handler is not called.                                 *)
Gated(r, c, op, fields, res, pc) ==
  IF Gate(c, RoleOf(op)) # NoRes
  THEN Begin(r, [op |-> op, user |-> c], Gate(c, RoleOf(op)), "idle")
  ELSE Begin(r, fields, res, pc)

(* ---------------------------- Application model ------------------------ *)
(* applicationSchema.index({job, applicant}, {unique: true}): the store    *)
(* rejects an insert whose (job, applicant) pair is already stored.        *)
NoUniqueIndex(apps, j, s) == FALSE

UniqueIndexRejects(apps, j, s) ==
  \E a \in DOMAIN apps : apps[a].job = j /\ apps[a].applicant = s

(* The post hooks the schema registers, as the $inc each applies to the    *)
(* parent job's applicationCount when the named middleware runs.           *)
HookIncDouble(middleware) ==
  IF middleware = "save" THEN 2 ELSE IF middleware = "remove" THEN -1 ELSE 0

ApplicationPostHookInc(middleware) ==
  IF middleware = "save" THEN 1
  ELSE IF middleware = "remove" THEN -1
  ELSE 0

(* Job.findByIdAndUpdate(id, {$inc: {applicationCount: n}}): atomic at the *)
(* store, and a no-op when no job has the id.                              *)
SetApplicationCount(js, j, n) ==
  IF j \in DOMAIN js
  THEN [js EXCEPT ![j].applicationCount = n]
  ELSE js

IncApplicationCount(js, j, n) ==
  IF j \in DOMAIN js
  THEN [js EXCEPT ![j].applicationCount = @ + n]
  ELSE js

(* The jobs stored when the application handlers start: an open job, a job *)
(* whose deadline (instant 0) has passed, and a deactivated job with that  *)
(* deadline.  The clock starts at instant 1.                               *)
SeedJobs ==
  (1 :> NewJob("e1", "c1", NoDate))
  @@ (2 :> NewJob("e2", "c2", 0))
  @@ (3 :> [NewJob("e1", "c1", 0) EXCEPT !.isActive = FALSE])

(* Ids a request may name: every stored id and 0, which no document has.   *)
JobArgs == {0} \cup DOMAIN SeedJobs
AppArgs == {0} \cup DOMAIN applications

(* ---------------------------- applyForJob ------------------------------ *)
(* Job.findOne({_id: jobId, isActive: true})                               *)
FindAnyJob(j) == {x \in DOMAIN jobs : x = j}

FindActiveJob(j) == {x \in DOMAIN jobs : x = j /\ jobs[x].isActive}

(* job.applicationDeadline && new Date() > job.applicationDeadline         *)
DeadlinePassed(deadline, t) == deadline # NoDate /\ t > deadline

(* Application.findOne({job: jobId, applicant: studentId})                 *)
NoExistingCheck(j, s) == {}

ExistingApplication(j, s) ==
  {a \in DOMAIN applications :
     applications[a].job = j /\ applications[a].applicant = s}

ApplyFindJobAs(r, s, j) ==
  /\ Gated(r, s, "apply", [op |-> "apply", user |-> s, jobId |-> j,
               pre |-> ExistingApplication(j, s) # {}],
           IF FindActiveJob(j) = {} THEN ApplyNotFound
           ELSE IF DeadlinePassed(jobs[j].applicationDeadline, now) THEN ApplyDeadline
           ELSE NoRes,
           "apply_findExisting")
  /\ UNCHANGED <<users, companies, jobs, applications, now, nextApp, nextJob, jobDecs>>

ApplyFindJob(r) == \E s \in Students, j \in JobArgs : ApplyFindJobAs(r, s, j)

ApplyFindExisting(r) ==
  /\ req[r].pc = "apply_findExisting"
  /\ LET q == req[r]
     IN req' = [req EXCEPT ![r] =
                  IF ExistingApplication(q.jobId, q.user) # {}
                  THEN Finish(q, ApplyConflict)
                  ELSE [q EXCEPT !.pc = "apply_create"]]
  /\ UNCHANGED <<users, companies, jobs, applications, now, nextApp, nextJob, jobDecs>>

(* Application.create(...): the insert either stores the document, after   *)
(* which the post('save') middleware runs, or is rejected by the unique    *)
(* index (E11000), which lands in the handler's catch block.               *)
ApplyCreate(r) ==
  /\ req[r].pc = "apply_create"
  /\ LET q == req[r]
     IN IF UniqueIndexRejects(applications, q.jobId, q.user)
        THEN /\ req' = [req EXCEPT ![r] = Finish(q, ServerError)]
             /\ UNCHANGED <<applications, nextApp>>
        ELSE /\ nextApp < MaxApps
             /\ nextApp' = nextApp + 1
             /\ applications' =
                  (nextApp + 1 :> NewApplication(q.jobId, q.user)) @@ applications
             /\ req' = [req EXCEPT ![r] =
                          [q EXCEPT !.pc = "app_hook", !.hook = "save",
                                    !.appId = nextApp + 1, !.docs = @ + 1]]
  /\ UNCHANGED <<users, companies, jobs, now, nextJob, jobDecs>>

(* The post middleware of the Application schema, run after the store call *)
(* that triggered it and before the handler continues to its response.     *)
ApplicationPostHook(r) ==
  /\ req[r].pc = "app_hook"
  /\ LET q == req[r]
         n == ApplicationPostHookInc(q.hook)
         j == q.jobId
     IN /\ jobs' = IncApplicationCount(jobs, j, n)
        /\ req' = [req EXCEPT ![r] =
                     Finish([q EXCEPT !.delta = @ + (IF j \in DOMAIN jobs THEN n ELSE 0)],
                            IF q.op = "apply" THEN ApplyCreated
                            ELSE IF q.op = "withdraw" THEN WithdrawOk
                            ELSE StatusUpdated)]
  /\ UNCHANGED <<users, companies, applications, now, nextApp, nextJob, jobDecs>>

(* ---------------------------- withdrawApplication ---------------------- *)
(* Application.findOne({_id: applicationId, applicant: studentId})         *)
FindAnyApplication(a, s) == {x \in DOMAIN applications : x = a}

FindOwnApplication(a, s) ==
  {x \in DOMAIN applications : x = a /\ applications[x].applicant = s}

(* ['shortlisted', 'accepted'].includes(application.status)                *)
LockedOnlyAccepted(status) == status = "accepted"

WithdrawLocked(status) == status \in {"shortlisted", "accepted"}

(* The middleware Application.findByIdAndDelete triggers.                  *)
WithdrawMiddleware == "findOneAndDelete"

WithdrawFindAs(r, s, a) ==
  /\ Gated(r, s, "withdraw", [op |-> "withdraw", user |-> s, appId |-> a,
               jobId |-> IF a \in DOMAIN applications THEN applications[a].job ELSE 0,
               pre |-> a \in DOMAIN applications],
           IF FindOwnApplication(a, s) = {} THEN WithdrawNotFound
           ELSE IF WithdrawLocked(applications[a].status) THEN WithdrawInvalid
           ELSE NoRes,
           "withdraw_delete")
  /\ UNCHANGED <<users, companies, jobs, applications, now, nextApp, nextJob, jobDecs>>

WithdrawFind(r) == \E s \in Students, a \in AppArgs : WithdrawFindAs(r, s, a)

(* Application.findByIdAndDelete(applicationId): removes the document if   *)
(* it is still stored; a post hook registered for the triggered middleware *)
(* runs before the response.                                               *)
WithdrawDelete(r) ==
  /\ req[r].pc = "withdraw_delete"
  /\ LET q == req[r]
         a == q.appId
     IN /\ applications' = [x \in DOMAIN applications \ {a} |-> applications[x]]
        /\ req' = [req EXCEPT ![r] =
                     LET d == [q EXCEPT !.docs =
                                 IF a \in DOMAIN applications THEN @ - 1 ELSE @]
                     IN IF a \in DOMAIN applications
                           /\ ApplicationPostHookInc(WithdrawMiddleware) # 0
                        THEN [d EXCEPT !.pc = "app_hook", !.hook = WithdrawMiddleware]
                        ELSE Finish(d, WithdrawOk)]
  /\ UNCHANGED <<users, companies, jobs, now, nextApp, nextJob, jobDecs>>

(* ---------------------------- updateApplicationStatus ------------------ *)
(* application.status === 'pending' && status !== 'pending'                *)
StampOnlyOnReviewed(old, new) == old = "pending" /\ new = "reviewed"

StampNeeded(old, new) == old = "pending" /\ new # "pending"

(* application.job.employer.toString() !== employerId                      *)
StatusOwnerCheckSkipped(job, caller) == FALSE

StatusCallerForbidden(job, caller) == job.employer # caller

(* Application.findById(id).populate('job'), the ownership check and the   *)
(* construction of updateData; a deleted parent job populates as null and  *)
(* the read of its employer throws into the catch block.  The slot         *)
(* remembers in pre that the status it read was accepted.                  *)
UpdateStatusFindAs(r, e, a, st) ==
  /\ Gated(r, e, "updateStatus", [op |-> "updateStatus", user |-> e, appId |-> a, status |-> st,
               stampAt |-> IF a \in DOMAIN applications
                              /\ StampNeeded(applications[a].status, st)
                           THEN now ELSE NoDate,
               stampBy |-> IF a \in DOMAIN applications
                              /\ StampNeeded(applications[a].status, st)
                           THEN e ELSE None,
               pre |-> a \in DOMAIN applications /\ applications[a].status = "accepted"],
           IF a \notin DOMAIN applications THEN StatusNotFound
           ELSE IF applications[a].job \notin DOMAIN jobs THEN ServerError
           ELSE IF StatusCallerForbidden(jobs[applications[a].job], e) THEN StatusForbidden
           ELSE NoRes,
           "status_write")
  /\ UNCHANGED <<users, companies, jobs, applications, now, nextApp, nextJob, jobDecs>>

UpdateStatusFind(r) ==
  \E e \in Employers, a \in AppArgs, st \in StatusInputs :
    UpdateStatusFindAs(r, e, a, st)

(* The same handler with every status value the route validation admits.   *)
UpdateStatusFindAny(r) ==
  \E e \in Employers, a \in AppArgs, st \in StatusEnum :
    UpdateStatusFindAs(r, e, a, st)

(* updateData applied to a stored document: status always, the stamp when  *)
(* the handler put it into updateData.                                     *)
ForwardOnlyUpdate(doc, q) ==
  IF doc.status \in {"accepted", "rejected"} THEN doc
  ELSE [doc EXCEPT !.status = q.status,
                   !.reviewedAt = IF q.stampBy # None THEN q.stampAt ELSE @,
                   !.reviewedBy = IF q.stampBy # None THEN q.stampBy ELSE @]

ApplyUpdateData(doc, q) ==
  [doc EXCEPT !.status = q.status,
              !.reviewedAt = IF q.stampBy # None THEN q.stampAt ELSE @,
              !.reviewedBy = IF q.stampBy # None THEN q.stampBy ELSE @]

(* The middleware Application.findByIdAndUpdate triggers.                  *)
StatusWriteBySave == "save"

StatusWriteMiddleware == "findOneAndUpdate"

(* Application.findByIdAndUpdate(id, updateData): only the keys present in *)
(* updateData are written; nothing is written when the document is gone.   *)
(* A post hook registered for the triggered middleware runs next.          *)
UpdateStatusWrite(r) ==
  /\ req[r].pc = "status_write"
  /\ LET q == req[r]
         a == q.appId
     IN /\ applications' =
             IF a \in DOMAIN applications
             THEN [applications EXCEPT ![a] = ApplyUpdateData(@, q)]
             ELSE applications
        /\ req' = [req EXCEPT ![r] =
                     IF a \in DOMAIN applications
                        /\ ApplicationPostHookInc(StatusWriteMiddleware) # 0
                     THEN [q EXCEPT !.pc = "app_hook", !.hook = StatusWriteMiddleware,
                                    !.jobId = applications[a].job]
                     ELSE Finish(q, StatusUpdated)]
  /\ UNCHANGED <<users, companies, jobs, now, nextApp, nextJob, jobDecs>>

(* ---------------------------- environment ------------------------------ *)
Tick ==
  /\ now < MaxClock
  /\ now' = now + 1
  /\ UNCHANGED <<users, companies, jobs, applications, nextApp, nextJob, req, jobDecs>>

(* A stored company: its name and its jobCount.                            *)
SeedCompany(c, n) == [name |-> c, jobCount |-> n]

SeedUsers ==
  [u \in Users |->
     [userType |-> IF u \in Students THEN "student" ELSE "employer",
      isActive |-> TRUE,
      company  |-> IF u = "e1" THEN "c1" ELSE IF u = "e2" THEN "c2" ELSE None]]

(* ---------------------------- Application Engine ----------------------- *)
InitApp ==
  /\ users = SeedUsers
  /\ companies = [c \in {"c1", "c2"} |-> SeedCompany(c, 1)]
  /\ jobs = SeedJobs
  /\ applications = <<>>
  /\ now = 1
  /\ nextApp = 0
  /\ nextJob = Cardinality(DOMAIN SeedJobs)
  /\ req = [r \in Requests |-> IdleReq]
  /\ jobDecs = [j \in DOMAIN SeedJobs |-> 0]

NextApp ==
  \/ \E r \in Requests : ApplyFindJob(r)
  \/ \E r \in Requests : ApplyFindExisting(r)
  \/ \E r \in Requests : ApplyCreate(r)
  \/ \E r \in Requests : ApplicationPostHook(r)
  \/ \E r \in Requests : WithdrawFind(r)
  \/ \E r \in Requests : WithdrawDelete(r)
  \/ \E r \in Requests : UpdateStatusFind(r)
  \/ \E r \in Requests : UpdateStatusWrite(r)

SpecApp == InitApp /\ [][NextApp]_vars

(* ---------------------------- applications only ------------------------ *)
(* Students apply and nothing else happens, so that every job's            *)
(* applicationCount starts at 0 and only the applies move it.              *)
NextApply ==
  \/ \E r \in Requests : ApplyFindJob(r)
  \/ \E r \in Requests : ApplyFindExisting(r)
  \/ \E r \in Requests : ApplyCreate(r)
  \/ \E r \in Requests : ApplicationPostHook(r)

SpecApply == InitApp /\ [][NextApply]_vars

(* ---------------------------- review of applications ------------------ *)
(* One pending Application of s1 for the open job is stored; employers     *)
(* update its status and the applicant withdraws it while the clock runs.  *)
InitReview ==
  /\ users = SeedUsers
  /\ companies = [c \in {"c1", "c2"} |-> SeedCompany(c, 1)]
  /\ jobs = [SeedJobs EXCEPT ![1].applicationCount = 1]
  /\ applications = (1 :> NewApplication(1, "s1"))
  /\ now = 1
  /\ nextApp = 1
  /\ nextJob = Cardinality(DOMAIN SeedJobs)
  /\ req = [r \in Requests |-> IdleReq]
  /\ jobDecs = [j \in DOMAIN SeedJobs |-> 0]

NextReview ==
  \/ \E r \in Requests : UpdateStatusFindAny(r)
  \/ \E r \in Requests : UpdateStatusWrite(r)
  \/ \E r \in Requests : WithdrawFind(r)
  \/ \E r \in Requests : WithdrawDelete(r)
  \/ Tick

SpecReview == InitReview /\ [][NextReview]_vars

(* ---------------------------- Job model -------------------------------- *)
JobCreated     == Res(201, "Job created successfully")
JobValidation  == Res(400, "Validation failed")
JobDeleted     == Res(200, "Job deleted successfully")
JobNotFound    == Res(404, "Job not found")
JobForbidden   == Res(403, "Not authorized to delete this job")
JobUpdated     == Res(200, "Job updated successfully")
JobUpdateForbidden == Res(403, "Not authorized to update this job")

(* job.employer.toString() !== req.user.id                                 *)
JobOwnerCheckSkipped(job, caller) == FALSE

JobCallerForbidden(job, caller) == job.employer # caller

(* Company.findByIdAndUpdate(id, {$inc: {jobCount: n}}): atomic at the     *)
(* store, and a no-op when no company has the id.                          *)
IncJobCount(cs, c, n) ==
  IF c \in DOMAIN cs THEN [cs EXCEPT ![c].jobCount = @ + n] ELSE cs

(* doc.isNew as the post('save') middleware of a document reads it: the    *)
(* flag is cleared when the insert is issued, before the post hooks run.   *)
IsNewInPostSave == FALSE

(* jobSchema.post('save'): the $inc it applies to the company's jobCount.  *)
JobPostSaveInc(isNew) == IF isNew THEN 1 ELSE 0

(* jobSchema.post('findOneAndDelete'): the $inc it applies to the          *)
(* company's jobCount, given whether the query deleted a document.         *)
JobPostDeleteInc(found) == IF found THEN -1 ELSE 0

(* The document createJob passes to Company.create, and the schema's       *)
(* required paths (name, city, email).                                     *)
TempCompany(e) ==
  [name |-> e \o "'s Company", email |-> e \o "@mail", city |-> None, jobCount |-> 0]

CompanyValidatesLax(doc) == doc.name # None /\ doc.email # None

CompanyValidates(doc) == doc.name # None /\ doc.city # None /\ doc.email # None

(* tempCompany._id: an id no stored company has.                           *)
NewCompanyId(cs, e) == "company-" \o e \o "-" \o ToString(Cardinality(DOMAIN cs))

(* ---------------------------- createJob -------------------------------- *)
(* employerAuth loads req.user; createJob reads req.user.company from it.  *)
CreateJobAuthAs(r, e, ok) ==
  /\ Gated(r, e, "createJob", [op |-> "createJob", user |-> e, valid |-> ok,
                  company |-> users[e].company,
                  pre |-> users[e].company = None],
           NoRes,
           IF users[e].company = None THEN "job_provision" ELSE "job_create")
  /\ UNCHANGED <<users, companies, jobs, applications, now, nextApp, nextJob, jobDecs>>

CreateJobAuth(r) == \E e \in Employers, ok \in BOOLEAN : CreateJobAuthAs(r, e, ok)

(* Company.create(...) for an employer without a company, and then         *)
(* User.findByIdAndUpdate(req.user.id, {company}).                         *)
CreateJobProvision(r) ==
  /\ req[r].pc \in {"job_provision", "job_attach"}
  /\ LET q == req[r]
     IN IF q.pc = "job_provision"
        THEN IF CompanyValidates(TempCompany(q.user))
             THEN /\ companies' =
                       (NewCompanyId(companies, q.user) :>
                          [name |-> TempCompany(q.user).name,
                           jobCount |-> TempCompany(q.user).jobCount]) @@ companies
                  /\ req' = [req EXCEPT ![r] =
                               [q EXCEPT !.pc = "job_attach", !.docs = @ + 1,
                                         !.company = NewCompanyId(companies, q.user)]]
                  /\ UNCHANGED users
             ELSE /\ req' = [req EXCEPT ![r] = Finish(q, JobValidation)]
                  /\ UNCHANGED <<users, companies>>
        ELSE /\ users' = [users EXCEPT ![q.user].company = q.company]
             /\ req' = [req EXCEPT ![r] = [q EXCEPT !.pc = "job_create", !.docs = @ + 1]]
             /\ UNCHANGED companies
  /\ UNCHANGED <<jobs, applications, now, nextApp, nextJob, jobDecs>>

(* Job.create(jobData): schema validation, the insert, and the post('save') *)
(* middleware of the Job schema.                                            *)
CreateJobInsert(r) ==
  /\ req[r].pc = "job_create"
  /\ LET q == req[r]
     IN IF q.valid
        THEN /\ nextJob < MaxJobs
             /\ nextJob' = nextJob + 1
             /\ jobs' = (nextJob + 1 :> NewJob(q.user, q.company, NoDate)) @@ jobs
             /\ jobDecs' = (nextJob + 1 :> 0) @@ jobDecs
             /\ companies' = IncJobCount(companies, q.company,
                                         JobPostSaveInc(IsNewInPostSave))
             /\ req' = [req EXCEPT ![r] =
                          [q EXCEPT !.pc = "job_inc", !.jobId = nextJob + 1,
                                    !.docs = @ + 1,
                                    !.delta = @ + (IF q.company \in DOMAIN companies
                                                   THEN JobPostSaveInc(IsNewInPostSave)
                                                   ELSE 0)]]
        ELSE /\ req' = [req EXCEPT ![r] = Finish(q, JobValidation)]
             /\ UNCHANGED <<companies, jobs, nextJob, jobDecs>>
  /\ UNCHANGED <<users, applications, now, nextApp>>

(* Company.findByIdAndUpdate(companyId, {$inc: {jobCount: 1}})             *)
CreateJobInc(r) ==
  /\ req[r].pc = "job_inc"
  /\ companies' = IncJobCount(companies, req[r].company, 1)
  /\ req' = [req EXCEPT ![r] =
               Finish([req[r] EXCEPT !.delta =
                         @ + (IF req[r].company \in DOMAIN companies THEN 1 ELSE 0)],
                      JobCreated)]
  /\ UNCHANGED <<users, jobs, applications, now, nextApp, nextJob, jobDecs>>

(* ---------------------------- deleteJob -------------------------------- *)
(* Ids a deleteJob may name: every id handed out so far and 0.             *)
DeleteArgs == 0..nextJob

(* Job.findById(req.params.id) and the ownership check.                    *)
DeleteJobFindAs(r, e, j) ==
  /\ Gated(r, e, "deleteJob", [op |-> "deleteJob", user |-> e, jobId |-> j,
               company |-> IF j \in DOMAIN jobs THEN jobs[j].company ELSE None],
           IF j \notin DOMAIN jobs THEN JobNotFound
           ELSE IF JobCallerForbidden(jobs[j], e) THEN JobForbidden
           ELSE NoRes,
           "job_delete")
  /\ UNCHANGED <<users, companies, jobs, applications, now, nextApp, nextJob, jobDecs>>

DeleteJobFind(r) == \E e \in Employers, j \in DeleteArgs : DeleteJobFindAs(r, e, j)

(* Job.findByIdAndDelete(req.params.id): removes the document if it is     *)
(* still stored and hands it (or null) to the post('findOneAndDelete')     *)
(* middleware, whose doc.company is kept in the slot's hook field.         *)
DeleteJobDeleteCascade(r) ==
  /\ req[r].pc = "job_delete"
  /\ LET q == req[r]
         j == q.jobId
     IN /\ jobs' = [x \in DOMAIN jobs \ {j} |-> jobs[x]]
        /\ applications' = [a \in {x \in DOMAIN applications : applications[x].job # j}
                              |-> applications[a]]
        /\ req' = [req EXCEPT ![r] =
                     IF JobPostDeleteInc(j \in DOMAIN jobs) # 0
                     THEN [q EXCEPT !.pc = "job_deleteHook", !.hook = jobs[j].company]
                     ELSE [q EXCEPT !.pc = "job_dec"]]
  /\ UNCHANGED <<users, companies, now, nextApp, nextJob, jobDecs>>

DeleteJobDelete(r) ==
  /\ req[r].pc = "job_delete"
  /\ LET q == req[r]
         j == q.jobId
     IN /\ jobs' = [x \in DOMAIN jobs \ {j} |-> jobs[x]]
        /\ req' = [req EXCEPT ![r] =
                     IF JobPostDeleteInc(j \in DOMAIN jobs) # 0
                     THEN [q EXCEPT !.pc = "job_deleteHook", !.hook = jobs[j].company]
                     ELSE [q EXCEPT !.pc = "job_dec"]]
  /\ UNCHANGED <<users, companies, applications, now, nextApp, nextJob, jobDecs>>

(* jobSchema.post('findOneAndDelete') for a deleted document.              *)
DeleteJobHook(r) ==
  /\ req[r].pc = "job_deleteHook"
  /\ LET q == req[r]
     IN /\ companies' = IncJobCount(companies, q.hook, JobPostDeleteInc(TRUE))
        /\ jobDecs' = [jobDecs EXCEPT ![q.jobId] = @ + 1]
        /\ req' = [req EXCEPT ![r] = [q EXCEPT !.pc = "job_dec", !.hook = None]]
  /\ UNCHANGED <<users, jobs, applications, now, nextApp, nextJob>>

(* Company.findByIdAndUpdate(job.company, {$inc: {jobCount: -1}})          *)
DeleteJobDec(r) ==
  /\ req[r].pc = "job_dec"
  /\ LET q == req[r]
     IN /\ companies' = IncJobCount(companies, q.company, -1)
        /\ jobDecs' = [jobDecs EXCEPT ![q.jobId] = @ + 1]
        /\ req' = [req EXCEPT ![r] = Finish(q, JobDeleted)]
  /\ UNCHANGED <<users, jobs, applications, now, nextApp, nextJob>>

(* ---------------------------- updateJob -------------------------------- *)
(* req.body, by the paths it sets: each path is absent (<<>>) or carries a *)
(* value.  The route validates the descriptive fields and removes nothing. *)
UpdateBodies ==
  {NoBody,
   [NoBody EXCEPT !.isActive = <<TRUE>>],
   [NoBody EXCEPT !.isActive = <<FALSE>>],
   [NoBody EXCEPT !.views = <<1>>]}

(* Job.findByIdAndUpdate(id, body): every path of the body is written.     *)
PatchJob(doc, body) ==
  LET d == IF body.isActive # <<>> THEN [doc EXCEPT !.isActive = body.isActive[1]] ELSE doc
  IN IF body.views # <<>> THEN [d EXCEPT !.views = body.views[1]] ELSE d

(* Job.findById(req.params.id) and the ownership check.                    *)
UpdateJobFindAs(r, e, j, active) ==
  /\ Gated(r, e, "updateJob", [op |-> "updateJob", user |-> e, jobId |-> j, body |-> active],
           IF j \notin DOMAIN jobs THEN JobNotFound
           ELSE IF JobCallerForbidden(jobs[j], e) THEN JobUpdateForbidden
           ELSE NoRes,
           "job_update")
  /\ UNCHANGED <<users, companies, jobs, applications, now, nextApp, nextJob, jobDecs>>

UpdateJobFind(r) ==
  \E e \in Employers, j \in DeleteArgs, active \in UpdateBodies :
    UpdateJobFindAs(r, e, j, active)

(* Job.findByIdAndUpdate(req.params.id, req.body, ...): writes the paths   *)
(* of the body to the document if it is still stored; the Job schema       *)
(* registers no middleware for this query.                                 *)
UpdateJobWrite(r) ==
  /\ req[r].pc = "job_update"
  /\ LET q == req[r]
         j == q.jobId
     IN /\ jobs' = IF j \in DOMAIN jobs
                   THEN [jobs EXCEPT ![j] = PatchJob(@, q.body)]
                   ELSE jobs
        /\ req' = [req EXCEPT ![r] = Finish(q, JobUpdated)]
  /\ UNCHANGED <<users, companies, applications, now, nextApp, nextJob, jobDecs>>

(* ---------------------------- getJob ----------------------------------- *)
GetJobOk    == Res(200, "job")
GetJobError == Res(500, "Server error while fetching job")

(* Job.findById(req.params.id): the handler keeps the document it read,    *)
(* with its views.  The route is public, so no caller is recorded.         *)
GetJobFind(r) ==
  \E j \in JobArgs :
    /\ j \in DOMAIN jobs => jobs[j].views < MaxViews
    /\ Begin(r, [op |-> "getJob", user |-> None, jobId |-> j,
                 views |-> IF j \in DOMAIN jobs THEN jobs[j].views ELSE 0],
             IF j \notin DOMAIN jobs THEN JobNotFound ELSE NoRes,
             "job_view")
    /\ UNCHANGED <<users, companies, jobs, applications, now, nextApp, nextJob, jobDecs>>

(* job.views += 1; await job.save(): the save writes the modified path,    *)
(* views, with the value computed from the document the handler read; it   *)
(* throws when the document is no longer stored.  The post('save')         *)
(* middleware sees a document that is not new and does nothing.            *)
GetJobSave(r) ==
  /\ req[r].pc = "job_view"
  /\ LET q == req[r]
         j == q.jobId
     IN IF j \in DOMAIN jobs
        THEN /\ jobs' = [jobs EXCEPT ![j].views = q.views + 1]
             /\ req' = [req EXCEPT ![r] = Finish(q, GetJobOk)]
        ELSE /\ req' = [req EXCEPT ![r] = Finish(q, GetJobError)]
             /\ UNCHANGED jobs
  /\ UNCHANGED <<users, companies, applications, now, nextApp, nextJob, jobDecs>>

(* The public read of jobs, on the seeded jobs.                            *)
NextView ==
  \/ \E r \in Requests : GetJobFind(r)
  \/ \E r \in Requests : GetJobSave(r)

(* ---------------------------- Job Registry ----------------------------- *)
(* Employer e1 owns company c1, employer e2 has no company; no job is      *)
(* stored yet.                                                             *)
InitJob ==
  /\ users = [SeedUsers EXCEPT !["e2"].company = None]
  /\ companies = [c \in {"c1"} |-> SeedCompany(c, 0)]
  /\ jobs = <<>>
  /\ applications = <<>>
  /\ now = 1
  /\ nextApp = 0
  /\ nextJob = 0
  /\ req = [r \in Requests |-> IdleReq]
  /\ jobDecs = <<>>

NextJob ==
  \/ \E r \in Requests : CreateJobAuth(r)
  \/ \E r \in Requests : CreateJobProvision(r)
  \/ \E r \in Requests : CreateJobInsert(r)
  \/ \E r \in Requests : CreateJobInc(r)
  \/ \E r \in Requests : DeleteJobFind(r)
  \/ \E r \in Requests : DeleteJobDelete(r)
  \/ \E r \in Requests : DeleteJobHook(r)
  \/ \E r \in Requests : DeleteJobDec(r)
  \/ \E r \in Requests : UpdateJobFind(r)
  \/ \E r \in Requests : UpdateJobWrite(r)

SpecJob == InitJob /\ [][NextJob]_vars

SpecView == InitApp /\ [][NextView]_vars

(* ======================================================================= *)
(* Properties of the Application Engine                                    *)
(* ======================================================================= *)
ApplicationsOf(j) == {a \in DOMAIN applications : applications[a].job = j}
ApplicationsOfPair(apps, j, s) ==
  {a \in DOMAIN apps : apps[a].job = j /\ apps[a].applicant = s}

(* C1: whenever no request is in flight, every job's applicationCount      *)
(* equals the number of stored Applications that reference the job.        *)
C1_CountMatchesApplications ==
  Quiescent =>
    \A j \in DOMAIN jobs : jobs[j].applicationCount = Cardinality(ApplicationsOf(j))

(* C2: of two apply requests for the same (student, job) pair that run     *)
(* concurrently against an open job the student has not applied to, one    *)
(* answers 201 and the other the 400 "already applied" conflict; together  *)
(* they insert one Application and raise applicationCount by one.          *)
C2_ConcurrentApplyOneConflict ==
  \A r1, r2 \in Requests :
    ( /\ r1 # r2 /\ Done(r1) /\ Done(r2)
      /\ req[r1].op = "apply" /\ req[r2].op = "apply"
      /\ r1 \in req[r2].conc
      /\ ~req[r1].pre /\ ~req[r2].pre
      /\ {req[r1].result, req[r2].result} \cap {ApplyNotFound, ApplyDeadline} = {} )
    => /\ {req[r1].result, req[r2].result} = {ApplyCreated, ApplyConflict}
       /\ req[r1].docs + req[r2].docs = 1
       /\ req[r1].delta + req[r2].delta = 1

(* C3: no two stored Applications have the same (job, applicant) pair.     *)
C3_UniquePair ==
  \A a, b \in DOMAIN applications :
    (applications[a].job = applications[b].job
       /\ applications[a].applicant = applications[b].applicant) => a = b

(* C3 witness: two applies passed the find-then-create check, the store    *)
(* rejected the second insert, and one Application is stored.              *)
C3_Witness ==
  \E r1, r2 \in Requests :
    /\ Done(r1) /\ Done(r2) /\ r1 \in req[r2].conc
    /\ req[r1].op = "apply" /\ req[r2].op = "apply"
    /\ ServerError \in {req[r1].result, req[r2].result}
    /\ Cardinality(DOMAIN applications) = 1

(* C4: an apply whose duplicate check runs while an Application of its     *)
(* (student, job) pair is stored answers the 400 "already applied"         *)
(* conflict and writes nothing, so exactly one Application of the pair is  *)
(* stored afterwards.                                                      *)
C4_SecondApplyConflicts ==
  [][\A r \in Requests :
       (ApplyFindExisting(r)
          /\ ApplicationsOfPair(applications, req[r].jobId, req[r].user) # {})
       => /\ req'[r].pc = "done"
          /\ req'[r].result = ApplyConflict
          /\ applications' = applications
          /\ jobs' = jobs
          /\ Cardinality(ApplicationsOfPair(applications', req[r].jobId, req[r].user)) = 1
    ]_vars

(* C4 witness: an apply that started after the first apply of its pair had *)
(* completed (the Application was stored, no twin was in flight) has been  *)
(* answered with the conflict, and one Application is stored.              *)
C4_Witness ==
  \E r \in Requests :
    /\ Done(r) /\ req[r].op = "apply" /\ req[r].pre /\ req[r].conc = {}
    /\ req[r].result = ApplyConflict
    /\ Cardinality(DOMAIN applications) = 1

C7_WithdrawDecrementsOnce ==
  \A r \in Requests :
    (Done(r) /\ req[r].op = "withdraw" /\ req[r].result = WithdrawOk
       /\ req[r].docs = -1)
    => req[r].delta = -1

(* C8: the insert of an apply stores one new Application with status       *)
(* pending; an apply that answered 201 inserted one Application and raised *)
(* applicationCount by one, any other apply inserted none and raised it by *)
(* zero.                                                                   *)
C8_ApplyIncrementsOnce ==
  [][\A r \in Requests :
       /\ (ApplyCreate(r) /\ req'[r].pc = "app_hook")
          => \E a \in DOMAIN applications' \ DOMAIN applications :
                /\ DOMAIN applications' = DOMAIN applications \cup {a}
                /\ applications'[a].status = "pending"
                /\ applications'[a].job = req[r].jobId
                /\ applications'[a].applicant = req[r].user
       /\ (req'[r].op = "apply" /\ req'[r].pc = "done")
          => IF req'[r].result = ApplyCreated
             THEN req'[r].docs = 1 /\ req'[r].delta = 1
             ELSE req'[r].docs = 0 /\ req'[r].delta = 0
    ]_vars

(* C8 witness: one apply answered 201, another failed in the create        *)
(* itself, and the job counts one application.                             *)
C8_Witness ==
  \E r1, r2 \in Requests :
    /\ Done(r1) /\ Done(r2)
    /\ req[r1].op = "apply" /\ req[r1].result = ApplyCreated /\ req[r1].delta = 1
    /\ req[r2].op = "apply" /\ req[r2].result = ServerError /\ req[r2].delta = 0
    /\ jobs[1].applicationCount = 1
    /\ Cardinality(ApplicationsOf(1)) = 1

(* C5: once an Application carries a review stamp, no step changes its     *)
(* reviewedAt or reviewedBy.                                               *)
C5_StampWrittenOnce ==
  [][\A a \in DOMAIN applications \cap DOMAIN applications' :
       applications[a].reviewedAt # NoDate
       => /\ applications'[a].reviewedAt = applications[a].reviewedAt
          /\ applications'[a].reviewedBy = applications[a].reviewedBy
    ]_vars

(* ======================================================================= *)
(* Properties of the Job Registry                                          *)
(* ======================================================================= *)
ActiveJobsOf(c) == {j \in DOMAIN jobs : jobs[j].company = c /\ jobs[j].isActive}

(* C9: whenever no request is in flight, every company's jobCount equals   *)
(* the number of stored active Jobs whose company it is.                   *)
C9_JobCountMatchesActiveJobs ==
  Quiescent =>
    \A c \in DOMAIN companies : companies[c].jobCount = Cardinality(ActiveJobsOf(c))

(* C10: for every job that has been deleted, once no deleteJob for it is   *)
(* in flight, exactly one -1 has been applied to its company's jobCount.   *)
C10_DecrementedOncePerDelete ==
  \A j \in DOMAIN jobDecs :
    (j \notin DOMAIN jobs
       /\ ~\E r \in Requests : InFlight(r) /\ req[r].op = "deleteJob" /\ req[r].jobId = j)
    => jobDecs[j] = 1

(* C11: no company's jobCount is ever below zero.                          *)
C11_JobCountNeverNegative ==
  \A c \in DOMAIN companies : companies[c].jobCount >= 0

(* The companies createJob has auto-provisioned for employer e.            *)
ProvisionedFor(e) ==
  {c \in DOMAIN companies : companies[c].name = TempCompany(e).name}

(* C12: two createJob requests with valid job fields that an employer      *)
(* without a company issues concurrently both create their job; at most    *)
(* one company is provisioned for the employer, and the company of both    *)
(* jobs is the one attached to the employer's user record.                 *)
C12_ConcurrentProvisionOnce ==
  \A r1, r2 \in Requests :
    ( /\ r1 # r2 /\ Done(r1) /\ Done(r2)
      /\ req[r1].op = "createJob" /\ req[r2].op = "createJob"
      /\ r1 \in req[r2].conc
      /\ req[r1].pre /\ req[r2].pre
      /\ req[r1].valid /\ req[r2].valid )
    => /\ Cardinality(ProvisionedFor(req[r1].user)) <= 1
       /\ req[r1].result = JobCreated /\ req[r2].result = JobCreated
       /\ req[r1].company = users[req[r1].user].company
       /\ req[r2].company = users[req[r2].user].company

(* C13: a createJob with valid job fields by an employer without a company *)
(* answers 201; at its response a company is stored and attached to the    *)
(* employer's user record, the created job has the caller as employer and  *)
(* that company as company, and the company, having no other job, has      *)
(* jobCount 1.                                                             *)
C13_FirstJobProvisionsCompany ==
  [][\A r \in Requests :
       (req[r].op = "createJob" /\ InFlight(r) /\ req[r].pre /\ req[r].valid
          /\ req'[r].pc = "done")
       => LET e == req[r].user
              c == req[r].company
              j == req[r].jobId
          IN /\ req'[r].result = JobCreated
             /\ c \in DOMAIN companies'
             /\ users'[e].company = c
             /\ j \in DOMAIN jobs' => (jobs'[j].employer = e /\ jobs'[j].company = c)
             /\ ({x \in DOMAIN jobs' : x # j /\ jobs'[x].company = c} = {}
                   /\ j \in DOMAIN jobs' /\ c \in DOMAIN companies')
                => companies'[c].jobCount = 1
    ]_vars

(* C14: a step that deactivates a stored job (isActive from true to false) *)
(* lowers the jobCount of the job's company by one.                        *)
C14_DeactivateDecrements ==
  [][\A j \in DOMAIN jobs \cap DOMAIN jobs' :
       (jobs[j].isActive /\ ~jobs'[j].isActive /\ jobs[j].company \in DOMAIN companies)
       => companies'[jobs[j].company].jobCount
            = companies[jobs[j].company].jobCount - 1
    ]_vars

(* C15: an apply to a stored job whose applicationDeadline is earlier than *)
(* the current time, whether the job is active or not, answers the 400     *)
(* "deadline has passed" response and creates no Application.              *)
C15_PastDeadlineAlwaysDeadlinePassed ==
  [][\A r \in Requests, s \in Students, j \in DOMAIN jobs :
       (jobs[j].applicationDeadline # NoDate
          /\ jobs[j].applicationDeadline < now
          /\ req'[r].op = "apply" /\ ApplyFindJobAs(r, s, j))
       => /\ req'[r].pc = "done"
          /\ req'[r].result = ApplyDeadline
          /\ applications' = applications
    ]_vars

(* C16: an apply that names no stored job, or a stored job whose isActive  *)
(* is false, answers 404, ends there, and leaves the applications and the  *)
(* jobs (their applicationCount) as they were.                             *)
C16_MissingOrInactiveNotFound ==
  [][\A r \in Requests, s \in Students, j \in JobArgs :
       ((j \notin DOMAIN jobs \/ ~jobs[j].isActive)
          /\ req'[r].op = "apply" /\ ApplyFindJobAs(r, s, j))
       => /\ req'[r].pc = "done"
          /\ req'[r].result = ApplyNotFound
          /\ applications' = applications
          /\ jobs' = jobs
    ]_vars

(* C16 witness: an apply was answered 404 while an inactive job is stored, *)
(* and no application references a missing or inactive job.                *)
C16_Witness ==
  \E r \in Requests :
    /\ Done(r) /\ req[r].op = "apply" /\ req[r].result = ApplyNotFound
    /\ \E j \in DOMAIN jobs : ~jobs[j].isActive
    /\ \A a \in DOMAIN applications :
         applications[a].job \in DOMAIN jobs /\ jobs[applications[a].job].isActive

(* C17: an updateStatus that names no stored application answers 404, and  *)
(* one issued by an employer other than the employer of the application's  *)
(* parent job answers 403; either ends the request there and leaves every  *)
(* stored Application as it was.                                           *)
C17_StatusNotFoundOrForbidden ==
  [][\A r \in Requests :
      (~InFlight(r) /\ req'[r].op = "updateStatus") =>
      \A e \in Employers, a \in AppArgs, st \in StatusEnum :
       UpdateStatusFindAs(r, e, a, st)
       => /\ a \notin DOMAIN applications
             => /\ req'[r].pc = "done"
                /\ req'[r].result = StatusNotFound
                /\ applications' = applications
          /\ (a \in DOMAIN applications
                /\ applications[a].job \in DOMAIN jobs
                /\ jobs[applications[a].job].employer # e)
             => /\ req'[r].pc = "done"
                /\ req'[r].result = StatusForbidden
                /\ applications' = applications
    ]_vars

(* C17 witness: one updateStatus was answered 404 and another 403, and a   *)
(* pending, unstamped Application is stored.                               *)
C17_Witness ==
  \E r1, r2 \in Requests :
    /\ Done(r1) /\ req[r1].op = "updateStatus" /\ req[r1].result = StatusNotFound
    /\ Done(r2) /\ req[r2].op = "updateStatus" /\ req[r2].result = StatusForbidden
    /\ \E a \in DOMAIN applications :
         applications[a].status = "pending" /\ applications[a].reviewedBy = None

(* C18: an updateStatus by the employer of the parent job is let through   *)
(* whatever the current and the requested status are, and its write, when  *)
(* the Application is still stored, answers 200 and leaves the stored      *)
(* status equal to the requested one.                                      *)
C18_AnyStatusToAnyStatus ==
  [][\A r \in Requests :
       /\ (~InFlight(r) /\ req'[r].op = "updateStatus") =>
          \A e \in Employers, a \in DOMAIN applications, st \in StatusEnum :
            (UpdateStatusFindAs(r, e, a, st)
               /\ applications[a].job \in DOMAIN jobs
               /\ jobs[applications[a].job].employer = e)
            => /\ req'[r].pc = "status_write"
               /\ req'[r].status = st
       /\ (UpdateStatusWrite(r) /\ req[r].appId \in DOMAIN applications)
          => /\ req'[r].result = StatusUpdated
             /\ applications'[req[r].appId].status = req[r].status
    ]_vars

(* C18 witness: an updateStatus that read the Application as accepted has  *)
(* answered 200 and the stored status is pending again.                    *)
C18_Witness ==
  \E r \in Requests :
    /\ Done(r) /\ req[r].op = "updateStatus" /\ req[r].pre
    /\ req[r].result = StatusUpdated
    /\ \E a \in DOMAIN applications : applications[a].status = "pending"

(* C19: a withdraw by a student of a stored Application of another student *)
(* answers 404, ends there and leaves the applications, the jobs (their    *)
(* applicationCount) and the companies as they were; and every step that   *)
(* removes an Application is the delete of a withdraw issued by the        *)
(* Application's applicant.                                                *)
C19_OnlyApplicantWithdraws ==
  [][/\ \A r \in Requests :
          (~InFlight(r) /\ req'[r].op = "withdraw") =>
          \A s \in Students, a \in DOMAIN applications :
            (applications[a].applicant # s /\ WithdrawFindAs(r, s, a))
            => /\ req'[r].pc = "done"
               /\ req'[r].result = WithdrawNotFound
               /\ applications' = applications
               /\ jobs' = jobs
               /\ companies' = companies
     /\ \A a \in DOMAIN applications \ DOMAIN applications' :
          \E r \in Requests :
            /\ req[r].op = "withdraw" /\ req[r].pc = "withdraw_delete"
            /\ req[r].appId = a
            /\ req[r].user = applications[a].applicant
            /\ req'[r].pc # "withdraw_delete"
    ]_vars

(* C19 witness: a withdraw that named a stored Application was answered    *)
(* 404, that Application's applicant has withdrawn an Application, and an  *)
(* Application is still stored.                                            *)
C19_Witness ==
  \E r1, r2 \in Requests :
    /\ Done(r1) /\ req[r1].op = "withdraw" /\ req[r1].pre
    /\ req[r1].result = WithdrawNotFound
    /\ Done(r2) /\ req[r2].op = "withdraw" /\ req[r2].result = WithdrawOk
    /\ req[r2].docs = -1
    /\ DOMAIN applications # {}

(* C20: an updateJob or deleteJob that names no stored job answers 404,    *)
(* and one issued by an employer other than the job's employer answers     *)
(* 403; either ends the request there and leaves the jobs and every        *)
(* company's jobCount as they were.                                        *)
C20_JobNotFoundOrForbidden ==
  [][\A r \in Requests :
       /\ (~InFlight(r) /\ req'[r].op = "deleteJob") =>
          \A e \in Employers, j \in DeleteArgs :
            DeleteJobFindAs(r, e, j)
            => /\ j \notin DOMAIN jobs
                  => /\ req'[r].pc = "done" /\ req'[r].result = JobNotFound
                     /\ jobs' = jobs /\ companies' = companies
               /\ (j \in DOMAIN jobs /\ jobs[j].employer # e)
                  => /\ req'[r].pc = "done" /\ req'[r].result = JobForbidden
                     /\ jobs' = jobs /\ companies' = companies
       /\ (~InFlight(r) /\ req'[r].op = "updateJob") =>
          \A e \in Employers, j \in DeleteArgs, active \in UpdateBodies :
            UpdateJobFindAs(r, e, j, active)
            => /\ j \notin DOMAIN jobs
                  => /\ req'[r].pc = "done" /\ req'[r].result = JobNotFound
                     /\ jobs' = jobs /\ companies' = companies
               /\ (j \in DOMAIN jobs /\ jobs[j].employer # e)
                  => /\ req'[r].pc = "done" /\ req'[r].result = JobUpdateForbidden
                     /\ jobs' = jobs /\ companies' = companies
    ]_vars

(* C20 witness: a deleteJob was answered 403 and an updateJob 404 while a  *)
(* job is stored, active, and counted once by its company.                 *)
C20_Witness ==
  \E r1, r2 \in Requests :
    /\ Done(r1) /\ req[r1].op = "deleteJob" /\ req[r1].result = JobForbidden
    /\ Done(r2) /\ req[r2].op = "updateJob" /\ req[r2].result = JobNotFound
    /\ \E j \in DOMAIN jobs :
         jobs[j].isActive /\ companies[jobs[j].company].jobCount = 1

C22_ConcurrentAppliesAllCounted ==
  \A r1, r2 \in Requests :
    ( /\ r1 # r2 /\ Done(r1) /\ Done(r2)
      /\ req[r1].op = "apply" /\ req[r2].op = "apply"
      /\ req[r1].result = ApplyCreated /\ req[r2].result = ApplyCreated
      /\ r1 \in req[r2].over )
    => /\ req[r1].delta = 1 /\ req[r2].delta = 1
       /\ \E j \in DOMAIN jobs :
            /\ Cardinality(ApplicationsOf(j)) = 2
            /\ jobs[j].applicationCount = 2

(* C22 witness: two overlapping applies of s1 and s2 have both answered    *)
(* 201 and job 1 counts two applications.                                  *)
C22_Witness ==
  \E r1, r2 \in Requests :
    /\ r1 # r2 /\ Done(r1) /\ Done(r2)
    /\ req[r1].op = "apply" /\ req[r2].op = "apply"
    /\ req[r1].result = ApplyCreated /\ req[r2].result = ApplyCreated
    /\ r1 \in req[r2].over
    /\ {applications[a].applicant : a \in ApplicationsOf(1)} = Students
    /\ jobs[1].applicationCount = 2

(* C23: no step lowers the views of a job, and a getJob whose save finds   *)
(* the views as the request read them (as does every getJob that overlaps  *)
(* no other) raises them by exactly 1.                                     *)
C23_ViewsNeverDecrease ==
  [][/\ \A j \in DOMAIN jobs \cap DOMAIN jobs' : jobs'[j].views >= jobs[j].views
     /\ \A r \in Requests :
          (GetJobSave(r) /\ req[r].jobId \in DOMAIN jobs
             /\ jobs[req[r].jobId].views = req[r].views)
          => jobs'[req[r].jobId].views = jobs[req[r].jobId].views + 1
    ]_vars

(* ---------------------------- Rejected requests ------------------------ *)
(* The gated routes called by anyone: the first step of the request, the   *)
(* route's middleware first and then the handler up to its first store call. *)
StartAs(r, c, op) ==
  CASE op = "apply"        -> \E j \in JobArgs : ApplyFindJobAs(r, c, j)
    [] op = "withdraw"     -> \E a \in AppArgs : WithdrawFindAs(r, c, a)
    [] op = "updateStatus" -> \E a \in AppArgs, st \in StatusInputs : UpdateStatusFindAs(r, c, a, st)
    [] op = "createJob"    -> \E ok \in BOOLEAN : CreateJobAuthAs(r, c, ok)
    [] op = "updateJob"    -> \E j \in JobArgs, b \in UpdateBodies : UpdateJobFindAs(r, c, j, b)
    [] op = "deleteJob"    -> \E j \in JobArgs : DeleteJobFindAs(r, c, j)

(* The callers a route is not meant for: no token, a deactivated account,  *)
(* or an account of the other role.                                        *)
Unentitled(c, op) ==
  \/ c = Anonymous
  \/ c \in DOMAIN users /\ ~users[c].isActive
  \/ c \in DOMAIN users /\ users[c].userType # RoleOf(op)

UnentitledRequest(r) ==
  \E c \in Callers, op \in GatedOps : Unentitled(c, op) /\ StartAs(r, c, op)

InitGate ==
  /\ users = [SeedUsers EXCEPT !["s2"].isActive = FALSE, !["e2"].isActive = FALSE]
  /\ companies = [c \in {"c1", "c2"} |-> SeedCompany(c, 1)]
  /\ jobs = [SeedJobs EXCEPT ![1].applicationCount = 1]
  /\ applications = (1 :> NewApplication(1, "s1"))
  /\ now = 1
  /\ nextApp = 1
  /\ nextJob = Cardinality(DOMAIN SeedJobs)
  /\ req = [r \in Requests |-> IdleReq]
  /\ jobDecs = [j \in DOMAIN SeedJobs |-> 0]

NextGate ==
  \/ \E r \in Requests : UnentitledRequest(r)
  \/ \E r \in Requests : UpdateStatusFind(r)
  \/ \E r \in Requests : UpdateStatusWrite(r)
  \/ \E r \in Requests : WithdrawFind(r)
  \/ \E r \in Requests : WithdrawDelete(r)

SpecGate == InitGate /\ [][NextGate]_vars

(* C24: a request by a caller without a token, by a deactivated account,   *)
(* by a non-employer to createJob, updateJob, deleteJob or updateStatus, or *)
(* by a non-student to apply or withdraw is answered in its first step by  *)
(* the gate (401 or 403), is finished by that one response, and leaves     *)
(* users, companies, jobs and applications as they were.                   *)
C24_UnentitledRejectedUnchanged ==
  [][\A r \in Requests, c \in Callers :
       \A op \in {req'[r].op} \cap GatedOps :
         (~InFlight(r) /\ Unentitled(c, op)) =>
           \/ /\ req'[r].pc = "done"
              /\ req'[r].result \in GateResponses
              /\ req'[r].result.code = (IF c = Anonymous \/ ~users[c].isActive THEN 401 ELSE 403)
              /\ UNCHANGED <<users, companies, jobs, applications>>
           \/ ~StartAs(r, c, op)]_vars

(* Both slots hold requests the gate turned away, one for a deactivated    *)
(* account and one for the wrong role, next to a changed application.      *)
C24_Witness ==
  /\ req[1].pc = "done" /\ req[1].result = AuthDeactivated
  /\ req[2].pc = "done" /\ req[2].result = EmployerRequired
  /\ req[2].op = "deleteJob"
  /\ 1 \in DOMAIN applications /\ applications[1].status # "pending"

(* C25: no Application is deleted while its stored status is shortlisted   *)
(* or accepted, whatever the interleaving of withdraw and updateStatus.    *)
C25_NoLockedApplicationDeleted ==
  [][\A a \in DOMAIN applications \ DOMAIN applications' :
       applications[a].status \notin {"shortlisted", "accepted"}]_vars

(* C26: updateJob changes only descriptive fields: the job's employer,     *)
(* company, applicationCount and views are the same after the update as    *)
(* before it, whatever the request body.                                   *)
C26_UpdateJobKeepsProtectedFields ==
  [][\A r \in Requests :
       req[r].pc = "job_update" /\ req'[r].pc = "done" =>
         \A j \in DOMAIN jobs \cap DOMAIN jobs' :
           /\ jobs'[j].employer = jobs[j].employer
           /\ jobs'[j].company = jobs[j].company
           /\ jobs'[j].applicationCount = jobs[j].applicationCount
           /\ jobs'[j].views = jobs[j].views]_vars

(* ---------------------------- updateApplicationCount ------------------- *)
RecountDone == Res(200, "count")

(* The routine is a method of a Job document: its caller has loaded the    *)
(* document, whose applicationCount is the value at that time.             *)
RecountLoad(r) ==
  \E j \in DOMAIN jobs :
    /\ Begin(r, [op |-> "recount", user |-> None, jobId |-> j, loaded |-> jobs[j].applicationCount],
             NoRes, "recount_count")
    /\ UNCHANGED <<users, companies, jobs, applications, now, nextApp, nextJob, jobDecs>>

(* count = await Application.countDocuments({job: this._id})               *)
RecountCount(r) ==
  /\ req[r].pc = "recount_count"
  /\ req' = [req EXCEPT ![r].count = Cardinality(ApplicationsOf(req[r].jobId)),
                        ![r].pc = "recount_save"]
  /\ UNCHANGED <<users, companies, jobs, applications, now, nextApp, nextJob, jobDecs>>

(* What save() writes for this.applicationCount = count: the assigned      *)
(* value when the path was modified, the stored value otherwise.           *)
SavedCount(stored, loaded, count) == IF count # loaded THEN count ELSE stored

(* this.applicationCount = count; await this.save(), with the post('save') *)
(* middleware of the Job model.                                            *)
RecountSave(r) ==
  /\ req[r].pc = "recount_save"
  /\ LET q == req[r]
         j == q.jobId
     IN /\ jobs' = [jobs EXCEPT ![j].applicationCount = SavedCount(@, q.loaded, q.count)]
        /\ companies' = IncJobCount(companies, jobs[j].company, JobPostSaveInc(IsNewInPostSave))
        /\ req' = [req EXCEPT ![r] = Finish(q, RecountDone)]
  /\ UNCHANGED <<users, applications, now, nextApp, nextJob, jobDecs>>

NextRecount ==
  \/ \E r \in Requests : ApplyFindJob(r)
  \/ \E r \in Requests : ApplyFindExisting(r)
  \/ \E r \in Requests : ApplyCreate(r)
  \/ \E r \in Requests : ApplicationPostHook(r)
  \/ \E r \in Requests : RecountLoad(r)
  \/ \E r \in Requests : RecountCount(r)
  \/ \E r \in Requests : RecountSave(r)

SpecRecount == InitApp /\ [][NextRecount]_vars

(* C27: when updateApplicationCount has saved, and no apply is in flight,  *)
(* the job's applicationCount is the number of stored Applications of the  *)
(* job, also when an apply completed between the count and the save.       *)
C27_RecountSetsTrueCount ==
  [][\A r \in Requests :
       (/\ req[r].pc = "recount_save" /\ req'[r].pc = "done"
        /\ \A p \in Requests \ {r} : ~InFlight(p))
       => jobs'[req[r].jobId].applicationCount
            = Cardinality({a \in DOMAIN applications' :
                             applications'[a].job = req[r].jobId})]_vars

(* C28: every stored Application whose status is not pending has           *)
(* reviewedAt and reviewedBy set, and reviewedBy is the employer of the    *)
(* Application's job, the caller the status change was accepted from.      *)
C28_NonPendingIsStamped ==
  \A a \in DOMAIN applications :
    applications[a].status # "pending" =>
      /\ applications[a].reviewedAt # NoDate
      /\ applications[a].reviewedBy # None
      /\ applications[a].job \in DOMAIN jobs
           => applications[a].reviewedBy = jobs[applications[a].job].employer

(* C28 witness: two status changes were written, the Application is not    *)
(* pending, and its stamp is older than the current time.                  *)
C28_Witness ==
  /\ \A r \in Requests : Done(r) /\ req[r].op = "updateStatus" /\ req[r].result = StatusUpdated
  /\ 1 \in DOMAIN applications
  /\ applications[1].status \in {"shortlisted", "rejected", "accepted"}
  /\ applications[1].reviewedBy = "e1"
  /\ applications[1].reviewedAt # NoDate /\ applications[1].reviewedAt < now

(* C29: updateStatus changes only the Application it names: no step of an  *)
(* updateStatus request, answered 200 or not, creates or deletes an        *)
(* Application, changes another Application, or changes a job (so every    *)
(* applicationCount stays as it was).                                      *)
C29_UpdateStatusTouchesOnlyTarget ==
  [][\A r \in Requests :
       /\ (req[r].op = "updateStatus" /\ InFlight(r) /\ req'[r].pc # req[r].pc)
          => /\ DOMAIN applications' = DOMAIN applications
             /\ jobs' = jobs
             /\ \A a \in DOMAIN applications \ {req[r].appId} :
                  applications'[a] = applications[a]
       /\ (~InFlight(r) /\ req'[r] # req[r] /\ req'[r].op = "updateStatus"
           /\ \A p \in Requests \ {r} : req'[p].pc = req[p].pc)
          => applications' = applications /\ jobs' = jobs]_vars

(* C29 witness: two Applications are stored, a status change of one was    *)
(* answered 200 and the other is still pending and unstamped.              *)
C29_Witness ==
  /\ \E r \in Requests : Done(r) /\ req[r].op = "updateStatus" /\ req[r].result = StatusUpdated
  /\ \E a, b \in DOMAIN applications :
       /\ a # b
       /\ applications[a].status = "shortlisted"
       /\ applications[b].status = "pending" /\ applications[b].reviewedBy = None

(* ---------------------------- jobs with applications ------------------- *)
(* deleteJob beside the review of the Application of a seeded job.         *)
NextOrphan ==
  \/ \E r \in Requests : DeleteJobFind(r)
  \/ \E r \in Requests : DeleteJobDelete(r)
  \/ \E r \in Requests : DeleteJobHook(r)
  \/ \E r \in Requests : DeleteJobDec(r)
  \/ \E r \in Requests : UpdateStatusFind(r)
  \/ \E r \in Requests : UpdateStatusWrite(r)

SpecOrphan == InitReview /\ [][NextOrphan]_vars

(* C30: no step of a deleteJob request changes an Application or a user,   *)
(* and the only change it makes to the jobs is the removal of the job it   *)
(* names: the Applications of the deleted job stay stored as they were.    *)
C30_DeleteJobNoCascade ==
  [][\A r \in Requests :
       (req[r].op = "deleteJob" /\ InFlight(r) /\ req'[r].pc # req[r].pc)
       => /\ applications' = applications
          /\ users' = users
          /\ DOMAIN jobs \ {req[r].jobId} \subseteq DOMAIN jobs'
          /\ DOMAIN jobs' \subseteq DOMAIN jobs
          /\ \A j \in DOMAIN jobs' : jobs'[j] = jobs[j]]_vars

(* C30 witness: job 1 was deleted with a 200 answer and its Application is *)
(* still stored, naming the job that is gone.                              *)
C30_Witness ==
  /\ \E r \in Requests : Done(r) /\ req[r].op = "deleteJob" /\ req[r].result = JobDeleted
  /\ 1 \notin DOMAIN jobs
  /\ 1 \in DOMAIN applications /\ applications[1].job = 1
  /\ companies["c1"].jobCount < 1

====
